---- MODULE Spec2Model ----
(***************************************************************************)
(* The live audio-capture-to-transcript pipeline of minutevault: the       *)
(* useAudioRecording hook.  Three implementations of the hook are          *)
(* modelled, and the page that uses it:                                    *)
(*                                                                         *)
(*   Spec       the WebSocket / ScriptProcessor hook                       *)
(*              (src/src/hooks/useAudioRecording.ts)                       *)
(*   SpecRetry, SpecSession                                                *)
(*              the SDK hook with connection retry and commit-flush        *)
(*              (src/unnamed/part_004, lines 238-519): its connection      *)
(*              side and its session side                                  *)
(*   SpecStop   the session side under the event loop's scheduling         *)
(*   SpecLabels one session of the WebSocket hook with a longer transcript *)
(*   SpecPage   the NewMeeting page (src/src/pages/NewMeeting.tsx) over    *)
(*              the WebSocket hook                                         *)
(*   SpecAudio  the audio path of the WebSocket hook                       *)
(*   SpecPcm    the sample conversion of onaudioprocess                    *)
(*   SpecEvents the SDK hook receiving committed events of every kind      *)
(*   SpecSync   the SDK hook that syncs from the SDK's own list            *)
(*              (src/unnamed/part_004, lines 959-1104)                     *)
(*                                                                         *)
(* All are single-threaded and event-driven: an action is one callback     *)
(* or one run of an async function between two awaits.                     *)
(***************************************************************************)
EXTENDS Integers, Sequences, FiniteSets, TLC

\* ---------------------------------------------------------------- bounds
\* clock readings the environment may advance through on its own
MaxTime == 1
\* committed segments kept in one transcript list
MaxSegs == 2
\* Sleeps of stopRecording's wait that are followed one by one.
MaxEarly == 1
\* Connection attempts followed within one startRecording call.
MaxAttempts == 5
\* Committed segments of a session followed for their labels.
MaxLabelled == 5
\* Input samples are the multiples of 1 / SampleDen from -MaxSample / SampleDen
\* to MaxSample / SampleDen; MaxSample > SampleDen puts samples outside
\* [-1, 1] among them.
\* Entries of scribe.committedTranscripts followed in one session.
MaxSdk == 3
\* Committed events of the SDK hook followed with their texts.
MaxEvents == 3
SampleDen == 64
MaxSample == 128

\* The startRecording calls made on one mounted hook, in the order made.
CallIds == {1, 2}

\* ------------------------------------------------------- program constants
maxRetries == 3
GraceMs == 1500
PollMs == 100
BaseDelayMs == 1000
\* 0x8000 and 0x7fff, and the width of an Int16Array element.
NegScale == 32768
PosScale == 32767
Int16Bits == 16

\* Values of the hook's `error` state.
NoError == "null"
MicDenied == "Microphone access denied"
TokenFailed == "Failed to initialize transcription service"
StartFailed == "Failed to start recording"
ConnError == "Connection error"
\* Error texts the backend may put in an error event ("" : no error field).
BackendErrors == {"", "quota_exceeded"}

\* Backend speaker identifiers a committed event may carry.
SpeakerIds == {"A", "B"}
\* Texts of transcript events ("" : empty text).
Texts == {"", "hello"}
\* Texts an SDK committed event may carry, and the text of the event that
\* flushes the speech pending when stopRecording sends its commit instruction.
SdkTexts == {"", " ", " hello "}
FlushText == "tail"
\* Further values of `error` in the SDK hook.
MicRequired == "Microphone permission is required for recording"
TimedOut == "Connection timed out"
NetworkError == "Network error"
SdkFailure == "sdk failure"
ConnectionLost == "Connection lost"
TranscriptionError == "Transcription error occurred"

VARIABLES
  \* React state of the hook
  isConnecting, isConnected, transcripts, partialText, speakersDetected, error,
  \* refs of the hook
  startTimeRef, speakerCountRef, wsRef, processorRef, streamRef,
  \* the browser: per startRecording call k, the position of the call, the
  \* MediaStream it acquired, the WebSocket it created and the audio graph
  \* (AudioContext, source, ScriptProcessor) its ws.onopen created
  pc, stream, sock, proc,
  \* the clock (Date.now()) and whether the component is unmounted
  now, unmounted,
  \* history: what has happened, for stating the properties
  lastStop, lateFrame,
  \* the SDK hook
  transcriptCounterRef, transcriptsRef, retryCountRef, connectionTimeoutRef,
  scribe, attempts, stopPc, beforeLen, waitStartedAt, wakeAt,
  stopResult, backend,
  \* the NewMeeting page: the title field, the last toast shown and the
  \* position of handleStart
  title, toast, pagePc,
  \* the SDK hook: when the pending backoff timer is due (0: no timer)
  retryAt,
  \* history: the readyState values sockets had when a frame was sent on them
  sentIn,
  \* onaudioprocess: the input sample last converted, in units of
  \* 1 / SampleDen, and the value stored in the Int16Array for it
  sample, pcm,
  \* the SDK hook that syncs from the SDK's list: scribe.committedTranscripts
  \* (the ids of its entries), processedIdsRef, and whether the list has
  \* changed since the sync effect last ran
  sdkCommitted, processedIdsRef, effectDue,
  \* history: the texts of the committed events the SDK hook has received
  received

wsOnly == <<isConnected, partialText, speakerCountRef, wsRef, processorRef,
            streamRef, stream, sock, proc, lastStop, lateFrame>>
wsVars == <<wsOnly, unmounted>>
retryVars == <<transcriptCounterRef, transcriptsRef, retryCountRef,
               connectionTimeoutRef, scribe, attempts, stopPc,
               beforeLen, waitStartedAt, wakeAt, stopResult, backend>>
sharedVars == <<isConnecting, transcripts, speakersDetected, error,
                startTimeRef, pc, now>>
pageVars == <<title, toast, pagePc>>
timerVars == <<retryAt>>
frameVars == <<sentIn>>
pcmVars == <<sample, pcm>>
syncVars == <<sdkCommitted, processedIdsRef, effectDue>>
eventVars == <<received>>
vars == <<sharedVars, wsVars, retryVars, pageVars, timerVars, frameVars,
          pcmVars, syncVars, eventVars>>

\* ------------------------------------------------------------------ Init
InitShared ==
  /\ isConnecting = FALSE
  /\ transcripts = <<>>
  /\ speakersDetected = 0
  /\ error = NoError
  /\ startTimeRef = 0
  /\ pc = [k \in CallIds |-> "notCalled"]
  /\ now = 0

InitWs ==
  /\ isConnected = FALSE
  /\ partialText = ""
  /\ speakerCountRef = {}
  /\ wsRef = 0
  /\ processorRef = 0
  /\ streamRef = 0
  /\ stream = [k \in CallIds |-> "none"]
  /\ sock = [k \in CallIds |-> "none"]
  /\ proc = [k \in CallIds |-> "none"]
  /\ unmounted = FALSE
  /\ lastStop = "none"
  /\ lateFrame = FALSE

InitRetry ==
  /\ transcriptCounterRef = 0
  /\ transcriptsRef = <<>>
  /\ retryCountRef = 0
  /\ connectionTimeoutRef = FALSE
  /\ scribe = "disconnected"
  /\ attempts = 0
  /\ stopPc = "idle"
  /\ beforeLen = 0
  /\ waitStartedAt = 0
  /\ wakeAt = 0
  /\ stopResult = <<>>
  /\ backend = "idle"

\* NewMeeting.tsx, line 23: useState("") for the title; no toast shown yet.
InitPage ==
  /\ title = ""
  /\ toast = "none"
  /\ pagePc = "idle"

InitTimer == retryAt = 0

InitFrames == sentIn = {}

\* new Int16Array(n) is filled with zeros (line 101).
InitPcm ==
  /\ sample = 0
  /\ pcm = 0

\* part_004, line 977: an empty processedIdsRef; the SDK's list is empty.
InitSync ==
  /\ sdkCommitted = <<>>
  /\ processedIdsRef = {}
  /\ effectDue = FALSE

InitEvents == received = <<>>

Init ==
  /\ InitShared /\ InitWs /\ InitRetry /\ InitPage /\ InitTimer /\ InitFrames
  /\ InitPcm /\ InitSync /\ InitEvents

\* =====================================================================
\* The WebSocket hook, src/src/hooks/useAudioRecording.ts
\* =====================================================================

\* The next startRecording call: calls are numbered in the order made.
NextCall == IF \E k \in CallIds : pc[k] = "notCalled"
            THEN CHOOSE k \in CallIds :
                   /\ pc[k] = "notCalled"
                   /\ \A j \in CallIds : j < k => pc[j] # "notCalled"
            ELSE 0

InFlight(k) == pc[k] \in {"awaitMic", "awaitToken"}

\* cleanupAudio as a function of the refs: the processor, source and audio
\* context are created together by ws.onopen and dropped together here, and
\* are modelled as the one audio graph processorRef names.
CleanProc(p) == IF processorRef # 0 THEN [p EXCEPT ![processorRef] = "off"] ELSE p
CleanStream(s) == IF streamRef # 0 THEN [s EXCEPT ![streamRef] = "stopped"] ELSE s

\* A cleanup that releases what the refs name and keeps the refs.
cleanupAudioKeepsRefs ==
  /\ proc' = CleanProc(proc)
  /\ stream' = CleanStream(stream)
  /\ UNCHANGED <<processorRef, streamRef>>

cleanupAudio ==
  /\ proc' = CleanProc(proc)
  /\ processorRef' = 0
  /\ stream' = CleanStream(stream)
  /\ streamRef' = 0

\* startRecording up to its first await (lines 44-50).
BeginStartRecording ==
  /\ ~unmounted
  /\ NextCall # 0
  /\ error' = NoError
  /\ isConnecting' = TRUE
  /\ pc' = [pc EXCEPT ![NextCall] = "awaitMic"]
  /\ lastStop' = "none"
  /\ UNCHANGED <<isConnected, transcripts, partialText, speakersDetected,
                 startTimeRef, speakerCountRef, wsRef, processorRef,
                 streamRef, stream, sock, proc, now, unmounted, lateFrame>>
  /\ UNCHANGED retryVars

\* startRecording called by a caller other than the page's handleStart.
StartRecording ==
  /\ BeginStartRecording
  /\ UNCHANGED <<pageVars, timerVars, frameVars, pcmVars, syncVars,
                 eventVars>>

\* getUserMedia resolves: the stream is kept and the token is requested
\* (lines 29-36, 50-60).
MicGranted(k) ==
  /\ pc[k] = "awaitMic"
  /\ stream' = [stream EXCEPT ![k] = "live"]
  /\ streamRef' = k
  /\ pc' = [pc EXCEPT ![k] = "awaitToken"]
  /\ UNCHANGED <<isConnecting, isConnected, transcripts, partialText,
                 speakersDetected, error, startTimeRef, speakerCountRef,
                 wsRef, processorRef, sock, proc, now, unmounted, lastStop,
                 lateFrame>>
  /\ UNCHANGED <<retryVars, pageVars, timerVars, frameVars, pcmVars, syncVars,
                 eventVars>>

\* A refusal after which the call goes on to request its token.
MicRefusedContinues(k) ==
  /\ pc[k] = "awaitMic"
  /\ error' = MicDenied
  /\ pc' = [pc EXCEPT ![k] = "awaitToken"]
  /\ UNCHANGED <<isConnecting, isConnected, transcripts, partialText,
                 speakersDetected, startTimeRef, speakerCountRef, wsRef,
                 processorRef, streamRef, stream, sock, proc, now, unmounted,
                 lastStop, lateFrame>>
  /\ UNCHANGED <<retryVars, pageVars, timerVars, frameVars, pcmVars, syncVars,
                 eventVars>>

\* getUserMedia rejects (lines 37-41, 51-54).
MicRefused(k) ==
  /\ pc[k] = "awaitMic"
  /\ error' = MicDenied
  /\ isConnecting' = FALSE
  /\ pc' = [pc EXCEPT ![k] = "retFalse"]
  /\ UNCHANGED <<isConnected, transcripts, partialText, speakersDetected,
                 startTimeRef, speakerCountRef, wsRef, processorRef,
                 streamRef, stream, sock, proc, now, unmounted, lastStop,
                 lateFrame>>
  /\ UNCHANGED <<retryVars, pageVars, timerVars, frameVars, pcmVars, syncVars,
                 eventVars>>

\* The token request fails or returns no token (lines 62-68): the tracks of
\* the call's own stream are stopped, streamRef is left as it is.
TokenError(k) ==
  /\ pc[k] = "awaitToken"
  /\ error' = TokenFailed
  /\ stream' = [stream EXCEPT ![k] = "stopped"]
  /\ isConnecting' = FALSE
  /\ pc' = [pc EXCEPT ![k] = "retFalse"]
  /\ UNCHANGED <<isConnected, transcripts, partialText, speakersDetected,
                 startTimeRef, speakerCountRef, wsRef, processorRef,
                 streamRef, sock, proc, now, unmounted, lastStop, lateFrame>>
  /\ UNCHANGED <<retryVars, pageVars, timerVars, frameVars, pcmVars, syncVars,
                 eventVars>>

\* The token arrives: the WebSocket is created, the handlers are registered
\* and startRecording returns true (lines 70-76, 182).
TokenGranted(k) ==
  /\ pc[k] = "awaitToken"
  /\ sock' = [sock EXCEPT ![k] = "CONNECTING"]
  /\ wsRef' = k
  /\ pc' = [pc EXCEPT ![k] = "retTrue"]
  /\ UNCHANGED <<isConnecting, isConnected, transcripts, partialText,
                 speakersDetected, error, startTimeRef, speakerCountRef,
                 processorRef, streamRef, stream, proc, now, unmounted,
                 lastStop, lateFrame>>
  /\ UNCHANGED <<retryVars, pageVars, timerVars, frameVars, pcmVars, syncVars,
                 eventVars>>

\* The token arrives and the WebSocket constructor throws (lines 73, 183-188).
SocketThrows(k) ==
  /\ pc[k] = "awaitToken"
  /\ error' = StartFailed
  /\ isConnecting' = FALSE
  /\ pc' = [pc EXCEPT ![k] = "retFalse"]
  /\ UNCHANGED <<isConnected, transcripts, partialText, speakersDetected,
                 startTimeRef, speakerCountRef, wsRef, processorRef,
                 streamRef, stream, sock, proc, now, unmounted, lastStop,
                 lateFrame>>
  /\ UNCHANGED <<retryVars, pageVars, timerVars, frameVars, pcmVars, syncVars,
                 eventVars>>

\* ws.onopen (lines 78-121).
WsOpen(k) ==
  /\ sock[k] = "CONNECTING"
  /\ sock' = [sock EXCEPT ![k] = "OPEN"]
  /\ startTimeRef' = now
  /\ speakerCountRef' = {}
  /\ transcripts' = <<>>
  /\ speakersDetected' = 0
  /\ isConnected' = TRUE
  /\ isConnecting' = FALSE
  /\ processorRef' = k
  /\ proc' = [proc EXCEPT ![k] = "active"]
  /\ UNCHANGED <<partialText, error, wsRef, streamRef, stream, pc, now,
                 unmounted, lastStop, lateFrame>>
  /\ UNCHANGED <<retryVars, pageVars, timerVars, frameVars, pcmVars, syncVars,
                 eventVars>>

\* readyState after ws.close(): a socket still connecting is failed by it.
Closed(st) == CASE st = "OPEN" -> "CLOSING"
                [] st = "CONNECTING" -> "ABORTING"
                [] OTHER -> st

\* ws.onmessage, partial_transcript (lines 128-131).
PartialTranscript(k, text) ==
  /\ sock[k] = "OPEN"
  /\ text # ""
  /\ partialText' = text
  /\ UNCHANGED <<isConnecting, isConnected, transcripts, speakersDetected,
                 error, startTimeRef, speakerCountRef, wsRef, processorRef,
                 streamRef, stream, sock, proc, pc, now, unmounted, lastStop,
                 lateFrame>>
  /\ UNCHANGED <<retryVars, pageVars, timerVars, frameVars, pcmVars, syncVars,
                 eventVars>>

\* The label ws.onmessage gives a committed segment (lines 136-137): the
\* number N of "Speaker N".  The backend's speaker identifier is not read.
SpeakerLabel(sid) == Cardinality(speakerCountRef) + 1

\* A committed_transcript handler that leaves the partial text in place.
CommitSegmentKeepsPartial(k, text, sid) ==
  /\ sock[k] = "OPEN"
  /\ text # ""
  /\ LET timestamp == now - startTimeRef
         speakerLabel == SpeakerLabel(sid)
     IN /\ speakerCountRef' = speakerCountRef \cup {speakerLabel}
        /\ speakersDetected' = Cardinality(speakerCountRef')
        /\ transcripts' = Append(transcripts,
                                 [text |-> text, timestamp |-> timestamp,
                                  speaker |-> speakerLabel, sid |-> sid])
  /\ UNCHANGED <<isConnecting, isConnected, partialText, error, startTimeRef,
                 wsRef, processorRef, streamRef, stream, sock, proc, pc, now,
                 unmounted, lastStop, lateFrame>>
  /\ UNCHANGED <<retryVars, pageVars, timerVars, frameVars, pcmVars, syncVars,
                 eventVars>>

\* A committed_transcript handler that replaces the list by the new segment.
CommitSegmentReplaces(k, text, sid) ==
  /\ sock[k] = "OPEN"
  /\ text # ""
  /\ LET timestamp == now - startTimeRef
         speakerLabel == SpeakerLabel(sid)
     IN /\ speakerCountRef' = speakerCountRef \cup {speakerLabel}
        /\ speakersDetected' = Cardinality(speakerCountRef')
        /\ transcripts' = <<[text |-> text, timestamp |-> timestamp,
                             speaker |-> speakerLabel, sid |-> sid]>>
  /\ partialText' = ""
  /\ UNCHANGED <<isConnecting, isConnected, error, startTimeRef, wsRef,
                 processorRef, streamRef, stream, sock, proc, pc, now,
                 unmounted, lastStop, lateFrame>>
  /\ UNCHANGED <<retryVars, pageVars, timerVars, frameVars, pcmVars, syncVars,
                 eventVars>>

\* ws.onmessage, committed_transcript (lines 133-152).
CommitSegment(k, text, sid) ==
  /\ sock[k] = "OPEN"
  /\ text # ""
  /\ LET timestamp == now - startTimeRef
         speakerLabel == SpeakerLabel(sid)
     IN /\ speakerCountRef' = speakerCountRef \cup {speakerLabel}
        /\ speakersDetected' = Cardinality(speakerCountRef')
        /\ transcripts' = Append(transcripts,
                                 [text |-> text, timestamp |-> timestamp,
                                  speaker |-> speakerLabel, sid |-> sid])
  /\ partialText' = ""
  /\ UNCHANGED <<isConnecting, isConnected, error, startTimeRef, wsRef,
                 processorRef, streamRef, stream, sock, proc, pc, now,
                 unmounted, lastStop, lateFrame>>
  /\ UNCHANGED <<retryVars, pageVars, timerVars, frameVars, pcmVars, syncVars,
                 eventVars>>

\* A committed_transcript event, while the list is within the bound.
CommittedTranscript(k, text, sid) ==
  /\ Len(transcripts) < MaxSegs
  /\ CommitSegment(k, text, sid)

\* ws.onmessage, error or input_error (lines 159-165).
ErrorMessage(k, e) ==
  /\ sock[k] = "OPEN"
  /\ error' = IF e # "" THEN e ELSE error
  /\ UNCHANGED <<isConnecting, isConnected, transcripts, partialText,
                 speakersDetected, startTimeRef, speakerCountRef, wsRef,
                 processorRef, streamRef, stream, sock, proc, pc, now,
                 unmounted, lastStop, lateFrame>>
  /\ UNCHANGED <<retryVars, pageVars, timerVars, frameVars, pcmVars, syncVars,
                 eventVars>>

\* A close handler that opens the connection again.
OnCloseReconnects(k) ==
  /\ sock' = [sock EXCEPT ![k] = "CONNECTING"]
  /\ isConnected' = FALSE
  /\ cleanupAudio

\* ws.onclose (lines 176-180).
OnClose(k) ==
  /\ sock' = [sock EXCEPT ![k] = "CLOSED"]
  /\ isConnected' = FALSE
  /\ cleanupAudio

\* The connection ends cleanly: closed by the backend, or the close the hook
\* asked for completes.  The browser fires close.
WsClose(k) ==
  /\ sock[k] \in {"OPEN", "CLOSING"}
  /\ OnClose(k)
  /\ UNCHANGED <<isConnecting, transcripts, partialText, speakersDetected,
                 error, startTimeRef, speakerCountRef, wsRef, pc, now,
                 unmounted, lastStop, lateFrame>>
  /\ UNCHANGED <<retryVars, pageVars, timerVars, frameVars, pcmVars, syncVars,
                 eventVars>>

\* The connection fails: it cannot be opened, is dropped, or was closed while
\* connecting.  The browser fires error and then close in one task
\* (ws.onerror, lines 171-174, then ws.onclose).
WsFail(k) ==
  /\ sock[k] \in {"CONNECTING", "OPEN", "ABORTING"}
  /\ error' = ConnError
  /\ OnClose(k)
  /\ UNCHANGED <<isConnecting, transcripts, partialText, speakersDetected,
                 startTimeRef, speakerCountRef, wsRef, pc, now, unmounted,
                 lastStop, lateFrame>>
  /\ UNCHANGED <<retryVars, pageVars, timerVars, frameVars, pcmVars, syncVars,
                 eventVars>>

\* History: stopRecording has run on a connected session, or the unmount
\* cleanup has run, and startRecording has not been called since.
Released == lastStop = "connected" \/ unmounted

\* processor.onaudioprocess (lines 97-117): the frame is converted and sent
\* when the socket of the closure is OPEN.
AudioProcess(k) ==
  /\ proc[k] = "active"
  /\ sock[k] = "OPEN"
  /\ lateFrame' = (lateFrame \/ Released)
  /\ UNCHANGED <<isConnecting, isConnected, transcripts, partialText,
                 speakersDetected, error, startTimeRef, speakerCountRef,
                 wsRef, processorRef, streamRef, stream, sock, proc, pc, now,
                 unmounted, lastStop>>
  /\ UNCHANGED <<retryVars, pageVars, timerVars, frameVars, pcmVars, syncVars,
                 eventVars>>

\* A test of the socket that lets every frame through.
FrameGuardAlways(k) == TRUE

\* The readyState test of onaudioprocess (line 98).
FrameGuard(k) == sock[k] = "OPEN"

\* processor.onaudioprocess (lines 97-117) fired by the audio graph whatever
\* the state of the socket: the frame is converted and sent only when the
\* test of line 98 passes.
AudioFrame(k) ==
  /\ proc[k] = "active"
  /\ sentIn' = IF FrameGuard(k) THEN sentIn \cup {sock[k]} ELSE sentIn
  /\ lateFrame' = (lateFrame \/ (FrameGuard(k) /\ Released))
  /\ UNCHANGED <<isConnecting, isConnected, transcripts, partialText,
                 speakersDetected, error, startTimeRef, speakerCountRef,
                 wsRef, processorRef, streamRef, stream, sock, proc, pc, now,
                 unmounted, lastStop>>
  /\ UNCHANGED <<retryVars, pageVars, timerVars, pcmVars, syncVars, eventVars>>

\* History: what the hook was doing when stopRecording was last called since
\* the last startRecording call.
StopKind ==
  IF \E k \in CallIds : InFlight(k) \/ sock[k] = "CONNECTING" THEN "inFlight"
  ELSE IF isConnected THEN "connected"
  ELSE lastStop

\* stopRecording (lines 210-223).
StopRecording ==
  /\ ~unmounted
  /\ sock' = IF wsRef # 0 /\ sock[wsRef] = "OPEN"
             THEN [sock EXCEPT ![wsRef] = Closed(sock[wsRef])] ELSE sock
  /\ cleanupAudio
  /\ isConnected' = FALSE
  /\ partialText' = ""
  /\ lastStop' = StopKind
  /\ UNCHANGED <<isConnecting, transcripts, speakersDetected, error,
                 startTimeRef, speakerCountRef, wsRef, pc, now, unmounted,
                 lateFrame>>
  /\ UNCHANGED <<retryVars, pageVars, timerVars, frameVars, pcmVars, syncVars,
                 eventVars>>

\* The unmount cleanup of the effect (lines 236-244).
Unmount ==
  /\ ~unmounted
  /\ unmounted' = TRUE
  /\ sock' = IF wsRef # 0
             THEN [sock EXCEPT ![wsRef] = Closed(sock[wsRef])] ELSE sock
  /\ cleanupAudio
  /\ UNCHANGED <<isConnecting, isConnected, transcripts, partialText,
                 speakersDetected, error, startTimeRef, speakerCountRef,
                 wsRef, pc, now, lastStop, lateFrame>>
  /\ UNCHANGED <<retryVars, pageVars, timerVars, frameVars, pcmVars, syncVars,
                 eventVars>>

\* Date.now() advances.
Tick ==
  /\ now < MaxTime
  /\ now' = now + 1
  /\ UNCHANGED <<isConnecting, transcripts, speakersDetected, error,
                 startTimeRef, pc>>
  /\ UNCHANGED <<wsVars, pageVars, timerVars, frameVars, pcmVars, syncVars,
                 eventVars>>
  /\ UNCHANGED <<retryVars, pageVars, timerVars, frameVars, pcmVars, syncVars,
                 eventVars>>

Next ==
  \/ StartRecording
  \/ \E k \in CallIds : MicGranted(k)
  \/ \E k \in CallIds : MicRefused(k)
  \/ \E k \in CallIds : TokenError(k)
  \/ \E k \in CallIds : TokenGranted(k)
  \/ \E k \in CallIds : SocketThrows(k)
  \/ \E k \in CallIds : WsOpen(k)
  \/ \E k \in CallIds, text \in Texts : PartialTranscript(k, text)
  \/ \E k \in CallIds, text \in Texts, sid \in SpeakerIds :
       CommittedTranscript(k, text, sid)
  \/ \E k \in CallIds, e \in BackendErrors : ErrorMessage(k, e)
  \/ \E k \in CallIds : WsClose(k)
  \/ \E k \in CallIds : WsFail(k)
  \/ \E k \in CallIds : AudioProcess(k)
  \/ StopRecording
  \/ Unmount
  \/ Tick

Spec == Init /\ [][Next]_vars

\* The audio path of the WebSocket hook: calls, connections and frames,
\* without the transcript events.
NextAudio ==
  \/ StartRecording
  \/ \E k \in CallIds : MicGranted(k)
  \/ \E k \in CallIds : MicRefused(k)
  \/ \E k \in CallIds : TokenError(k)
  \/ \E k \in CallIds : TokenGranted(k)
  \/ \E k \in CallIds : WsOpen(k)
  \/ \E k \in CallIds : WsClose(k)
  \/ \E k \in CallIds : WsFail(k)
  \/ \E k \in CallIds : AudioFrame(k)
  \/ StopRecording
  \/ Unmount

SpecAudio == Init /\ [][NextAudio]_vars

\* One session of the WebSocket hook that receives a longer run of
\* committed segments.
LabelledTranscript(k, sid) ==
  /\ Len(transcripts) < MaxLabelled
  /\ CommitSegment(k, "hello", sid)

NextLabels ==
  \/ StartRecording
  \/ \E k \in CallIds : MicGranted(k)
  \/ \E k \in CallIds : TokenGranted(k)
  \/ \E k \in CallIds : WsOpen(k)
  \/ \E k \in CallIds, sid \in SpeakerIds : LabelledTranscript(k, sid)
  \/ \E k \in CallIds : WsClose(k)

SpecLabels == Init /\ [][NextLabels]_vars

\* =====================================================================
\* The SDK hook with retry, src/unnamed/part_004 lines 238-519.
\*
\* The SDK (useScribe) is outside the repository.  It is modelled by its
\* status: "disconnected", "connecting" (connect() called and pending),
\* "opened" (connection established, connect() resolved) and "started" (the
\* session_started event has been delivered).  Calls are made one after the
\* other: a call of startRecording or stopRecording begins when no other
\* call is in flight, and stopRecording is called once.
\* =====================================================================

Connected == scribe \in {"opened", "started"}

Running(k) == pc[k] \in {"awaitMic", "awaitToken", "awaitConnect", "backoff"}

Max(a, b) == IF a > b THEN a ELSE b

\* String.prototype.trim on the texts of SdkTexts and on the titles.
Trim(text) == CASE text = " " -> ""
                [] text = " hello " -> "hello"
                [] OTHER -> text

\* The speaker label of the n-th segment (line 304): N of "Speaker N".
RotatingLabel(n) == ((n - 1) % 4) + 1

\* appendTranscript (lines 300-319).  The id `transcript-<counter>-<now>` is
\* kept as the pair of its two numbers.
appendTranscript(text) ==
  /\ transcriptCounterRef' = transcriptCounterRef + 1
  /\ LET timestamp == now - startTimeRef
         speakerLabel == RotatingLabel(transcriptCounterRef')
         next == [id |-> <<transcriptCounterRef', now>>, text |-> text,
                  timestamp |-> timestamp, speaker |-> speakerLabel]
         updated == Append(transcriptsRef, next)
     IN /\ transcriptsRef' = updated
        /\ transcripts' = updated
        /\ speakersDetected' =
             Max(speakersDetected, RotatingLabel(transcriptCounterRef'))

\* startRecording up to its first await (lines 358-363).
R_StartRecording ==
  /\ ~unmounted
  /\ NextCall # 0
  /\ \A k \in CallIds : ~Running(k)
  /\ stopPc # "polling"
  /\ error' = NoError
  /\ isConnecting' = TRUE
  /\ pc' = [pc EXCEPT ![NextCall] = "awaitMic"]
  /\ attempts' = 0
  /\ backend' = IF Connected THEN backend ELSE "idle"
  /\ UNCHANGED <<transcripts, speakersDetected, startTimeRef, now, unmounted,
                 transcriptCounterRef, transcriptsRef, retryCountRef,
                 connectionTimeoutRef, scribe, stopPc, beforeLen,
                 waitStartedAt, wakeAt, stopResult>>
  /\ UNCHANGED <<wsOnly, pageVars, timerVars, frameVars, pcmVars, syncVars,
                 eventVars>>

\* The permission request fails (lines 272-275, 364-368).
R_MicRefused(k) ==
  /\ pc[k] = "awaitMic"
  /\ error' = MicRequired
  /\ isConnecting' = FALSE
  /\ pc' = [pc EXCEPT ![k] = "retFalse"]
  /\ UNCHANGED <<transcripts, speakersDetected, startTimeRef, now, unmounted>>
  /\ UNCHANGED <<retryVars, pageVars, timerVars, frameVars, pcmVars, syncVars,
                 eventVars>>
  /\ UNCHANGED <<wsOnly, pageVars, timerVars, frameVars, pcmVars, syncVars,
                 eventVars>>

\* A reset that restarts the clock origin and the counter and keeps the list.
StartResetKeepsList ==
  /\ startTimeRef' = now
  /\ transcriptCounterRef' = 0
  /\ UNCHANGED <<transcriptsRef, transcripts, speakersDetected>>

\* The per-session reset of startRecording (lines 370-375).
StartReset ==
  /\ startTimeRef' = now
  /\ transcriptCounterRef' = 0
  /\ transcriptsRef' = <<>>
  /\ transcripts' = <<>>
  /\ speakersDetected' = 0

\* The permission is granted (lines 258-271): the session state is reset and
\* the first connection attempt requests its token (lines 370-383).
R_MicGranted(k) ==
  /\ pc[k] = "awaitMic"
  /\ StartReset
  /\ attempts' = 1
  /\ pc' = [pc EXCEPT ![k] = "awaitToken"]
  /\ UNCHANGED <<isConnecting, error, now, unmounted, retryCountRef,
                 connectionTimeoutRef, scribe, stopPc, beforeLen,
                 waitStartedAt, wakeAt, stopResult, backend>>
  /\ UNCHANGED <<wsOnly, pageVars, timerVars, frameVars, pcmVars, syncVars,
                 eventVars>>

\* The message startRecording's catch shows for the error that ended the
\* last attempt (lines 445-458).
FailureMessage(kind) ==
  CASE kind = "timeout" -> TimedOut
    [] kind = "network" -> NetworkError
    [] kind = "token" -> TokenFailed
    [] OTHER -> SdkFailure

\* The retry budget test of attemptConnection's catch (line 426).
MayRetry == retryCountRef < maxRetries

\* The catch of attemptConnection (lines 417-435), and startRecording's own
\* catch when the error is rethrown (lines 442-463).  attempts counts the
\* invocations of attemptConnection by the call in flight.
Catch(k, kind) ==
  /\ connectionTimeoutRef' = FALSE
  /\ IF MayRetry
     THEN /\ retryCountRef' = retryCountRef + 1
          /\ retryAt' = now + BaseDelayMs * retryCountRef'
          /\ pc' = [pc EXCEPT ![k] = "backoff"]
          /\ UNCHANGED <<error, isConnecting, attempts>>
     ELSE /\ error' = FailureMessage(kind)
          /\ isConnecting' = FALSE
          /\ pc' = [pc EXCEPT ![k] = "retFalse"]
          /\ attempts' = 0
          /\ UNCHANGED <<retryCountRef, retryAt>>

\* A token failure that ends the call at once, without a retry.
R_TokenErrorFatal(k) ==
  /\ pc[k] = "awaitToken"
  /\ error' = TokenFailed
  /\ isConnecting' = FALSE
  /\ pc' = [pc EXCEPT ![k] = "retFalse"]
  /\ attempts' = 0
  /\ connectionTimeoutRef' = FALSE
  /\ UNCHANGED <<transcripts, speakersDetected, startTimeRef, now, unmounted,
                 transcriptCounterRef, transcriptsRef, retryCountRef, scribe,
                 stopPc, beforeLen, waitStartedAt, wakeAt, stopResult,
                 backend>>
  /\ UNCHANGED <<wsOnly, pageVars, timerVars, frameVars, pcmVars, syncVars,
                 eventVars>>

\* The token request of an attempt fails (lines 385-388).
R_TokenError(k) ==
  /\ pc[k] = "awaitToken"
  /\ Catch(k, "token")
  /\ UNCHANGED <<transcripts, speakersDetected, startTimeRef, now, unmounted,
                 transcriptCounterRef, transcriptsRef, scribe, stopPc,
                 beforeLen, waitStartedAt, wakeAt, stopResult,
                 backend>>
  /\ UNCHANGED <<wsOnly, pageVars, frameVars, pcmVars, syncVars, eventVars>>

\* The token arrives: scribe.connect is called and the 15 s timer is armed
\* (lines 390-409).
R_TokenGranted(k) ==
  /\ pc[k] = "awaitToken"
  /\ scribe' = IF scribe = "disconnected" THEN "connecting" ELSE scribe
  /\ connectionTimeoutRef' = TRUE
  /\ pc' = [pc EXCEPT ![k] = "awaitConnect"]
  /\ UNCHANGED <<isConnecting, transcripts, speakersDetected, error,
                 startTimeRef, now, unmounted, transcriptCounterRef,
                 transcriptsRef, retryCountRef, attempts, stopPc,
                 beforeLen, waitStartedAt, wakeAt, stopResult, backend>>
  /\ UNCHANGED <<wsOnly, pageVars, timerVars, frameVars, pcmVars, syncVars,
                 eventVars>>

\* scribe.connect resolves (lines 409-416, 439-441).
R_ConnectResolves(k) ==
  /\ pc[k] = "awaitConnect"
  /\ scribe' = IF scribe = "started" THEN "started" ELSE "opened"
  /\ connectionTimeoutRef' = FALSE
  /\ isConnecting' = FALSE
  /\ pc' = [pc EXCEPT ![k] = "retTrue"]
  /\ attempts' = 0
  /\ UNCHANGED <<transcripts, speakersDetected, error, startTimeRef, now,
                 unmounted, transcriptCounterRef, transcriptsRef,
                 retryCountRef, stopPc, beforeLen,
                 waitStartedAt, wakeAt, stopResult, backend>>
  /\ UNCHANGED <<wsOnly, pageVars, timerVars, frameVars, pcmVars, syncVars,
                 eventVars>>

\* scribe.connect rejects (lines 417-435).
R_ConnectRejects(k, kind) ==
  /\ pc[k] = "awaitConnect"
  /\ scribe' = IF scribe = "connecting" THEN "disconnected" ELSE scribe
  /\ Catch(k, kind)
  /\ UNCHANGED <<transcripts, speakersDetected, startTimeRef, now, unmounted,
                 transcriptCounterRef, transcriptsRef, stopPc, beforeLen,
                 waitStartedAt, wakeAt, stopResult,
                 backend>>
  /\ UNCHANGED <<wsOnly, pageVars, frameVars, pcmVars, syncVars, eventVars>>

\* The 15 s timer fires first (lines 403-407): the race rejects, the connect
\* call itself stays pending in the SDK.
R_ConnectTimeout(k) ==
  /\ pc[k] = "awaitConnect"
  /\ connectionTimeoutRef
  /\ Catch(k, "timeout")
  /\ UNCHANGED <<transcripts, speakersDetected, startTimeRef, now, unmounted,
                 transcriptCounterRef, transcriptsRef, scribe, stopPc,
                 beforeLen, waitStartedAt, wakeAt, stopResult,
                 backend>>
  /\ UNCHANGED <<wsOnly, pageVars, frameVars, pcmVars, syncVars, eventVars>>

\* The backoff delay has passed: the next attempt requests its token
\* (lines 430-431, 379-383).
R_BackoffElapsed(k) ==
  /\ pc[k] = "backoff"
  /\ now >= retryAt
  /\ attempts < MaxAttempts
  /\ attempts' = attempts + 1
  /\ retryAt' = 0
  /\ pc' = [pc EXCEPT ![k] = "awaitToken"]
  /\ UNCHANGED <<isConnecting, transcripts, speakersDetected, error,
                 startTimeRef, now, unmounted, transcriptCounterRef,
                 transcriptsRef, retryCountRef, connectionTimeoutRef, scribe,
                 stopPc, beforeLen, waitStartedAt, wakeAt, stopResult,
                 backend>>
  /\ UNCHANGED <<wsOnly, pageVars, frameVars, pcmVars, syncVars, eventVars>>

\* The clock advances while a call sleeps in its backoff (line 430).
R_BackoffTick(k) ==
  /\ pc[k] = "backoff"
  /\ now < retryAt
  /\ now' = now + BaseDelayMs
  /\ UNCHANGED <<isConnecting, transcripts, speakersDetected, error,
                 startTimeRef, pc>>
  /\ UNCHANGED <<wsVars, retryVars, pageVars, timerVars, frameVars, pcmVars,
                 syncVars, eventVars>>

\* A connect call the hook no longer waits for (its attempt timed out)
\* establishes its connection.
R_LateConnect ==
  /\ scribe = "connecting"
  /\ \A k \in CallIds : pc[k] # "awaitConnect"
  /\ scribe' = "opened"
  /\ UNCHANGED <<transcriptCounterRef, transcriptsRef, retryCountRef,
                 connectionTimeoutRef, attempts, stopPc, beforeLen,
                 waitStartedAt, wakeAt, stopResult, backend>>
  /\ UNCHANGED <<sharedVars, wsVars, pageVars, timerVars, frameVars, pcmVars,
                 syncVars, eventVars>>

\* onSessionStarted (lines 324-331).
R_SessionStarted ==
  /\ scribe = "opened"
  /\ scribe' = "started"
  /\ retryCountRef' = 0
  /\ connectionTimeoutRef' = FALSE
  /\ UNCHANGED <<transcriptCounterRef, transcriptsRef, attempts, stopPc,
                 beforeLen, waitStartedAt, wakeAt, stopResult, backend>>
  /\ UNCHANGED <<sharedVars, wsVars, pageVars, timerVars, frameVars, pcmVars,
                 syncVars, eventVars>>

\* onCommittedTranscript (lines 335-339) for a segment the backend commits on
\* its own (commit strategy VAD).
R_Committed(text) ==
  /\ Connected
  /\ Trim(text) # ""
  /\ Len(transcriptsRef) < MaxSegs
  /\ appendTranscript(Trim(text))
  /\ UNCHANGED <<isConnecting, error, startTimeRef, pc, now, unmounted,
                 retryCountRef, connectionTimeoutRef, scribe, attempts,
                 stopPc, beforeLen, waitStartedAt, wakeAt, stopResult,
                 backend>>
  /\ UNCHANGED <<wsOnly, pageVars, timerVars, frameVars, pcmVars, syncVars,
                 eventVars>>

\* The user speaks: the backend holds speech it has not committed yet
\* (onPartialTranscript, lines 332-334, only logs).
R_Speech ==
  /\ Connected
  /\ backend = "idle"
  /\ backend' = "speech"
  /\ UNCHANGED <<transcriptCounterRef, transcriptsRef, retryCountRef,
                 connectionTimeoutRef, scribe, attempts, stopPc,
                 beforeLen, waitStartedAt, wakeAt, stopResult>>
  /\ UNCHANGED <<sharedVars, wsVars, pageVars, timerVars, frameVars, pcmVars,
                 syncVars, eventVars>>

\* onCommittedTranscript for the segment the commit instruction of
\* stopRecording flushed.
R_FlushCommitted ==
  /\ Connected
  /\ backend = "flushing"
  /\ Len(transcriptsRef) < MaxSegs
  /\ appendTranscript(FlushText)
  /\ backend' = "delivered"
  /\ UNCHANGED <<isConnecting, error, startTimeRef, pc, now, unmounted,
                 retryCountRef, connectionTimeoutRef, scribe, attempts,
                 stopPc, beforeLen, waitStartedAt, wakeAt, stopResult>>
  /\ UNCHANGED <<wsOnly, pageVars, timerVars, frameVars, pcmVars, syncVars,
                 eventVars>>

\* onError (lines 340-355), by what the SDK reports.
ScribeErrorMessage(kind) ==
  CASE kind = "websocket" -> ConnectionLost
    [] kind = "microphone" -> MicDenied
    [] kind = "other" -> SdkFailure
    [] OTHER -> TranscriptionError

R_ScribeError(kind) ==
  /\ scribe # "disconnected"
  /\ error' = ScribeErrorMessage(kind)
  /\ UNCHANGED <<isConnecting, transcripts, speakersDetected, startTimeRef,
                 pc, now>>
  /\ UNCHANGED <<wsVars, retryVars, pageVars, timerVars, frameVars, pcmVars,
                 syncVars, eventVars>>

\* The backend or the network ends the session.
R_ScribeCloses ==
  /\ Connected
  /\ scribe' = "disconnected"
  /\ UNCHANGED <<transcriptCounterRef, transcriptsRef, retryCountRef,
                 connectionTimeoutRef, attempts, stopPc, beforeLen,
                 waitStartedAt, wakeAt, stopResult, backend>>
  /\ UNCHANGED <<sharedVars, wsVars, pageVars, timerVars, frameVars, pcmVars,
                 syncVars, eventVars>>

\* A wait loop that tests the list only and has no deadline.
KeepWaitingNoDeadline == Len(transcriptsRef) = beforeLen

\* The condition of stopRecording's wait loop (lines 480-483).
KeepWaiting ==
  /\ now - waitStartedAt < GraceMs
  /\ Len(transcriptsRef) = beforeLen

\* stopRecording up to its first sleep (lines 466-484): the timer is
\* cleared, the commit instruction is sent and the wait begins.
R_StopRecording ==
  /\ ~unmounted
  /\ stopPc = "idle"
  /\ \A k \in CallIds : ~Running(k)
  /\ connectionTimeoutRef' = FALSE
  /\ beforeLen' = Len(transcriptsRef)
  /\ backend' = IF Connected /\ backend = "speech" THEN "flushing" ELSE backend
  /\ waitStartedAt' = now
  /\ wakeAt' = now + PollMs
  /\ stopPc' = "polling"
  /\ UNCHANGED <<transcriptCounterRef, transcriptsRef, retryCountRef, scribe,
                 attempts, stopResult>>
  /\ UNCHANGED <<sharedVars, wsVars, pageVars, timerVars, frameVars, pcmVars,
                 syncVars, eventVars>>

\* stopRecording when scribe.commit throws because there is no connection
\* (lines 477, 488-492).
R_StopCommitThrows ==
  /\ ~unmounted
  /\ stopPc = "idle"
  /\ \A k \in CallIds : ~Running(k)
  /\ ~Connected
  /\ connectionTimeoutRef' = FALSE
  /\ stopResult' = transcriptsRef
  /\ stopPc' = "returned"
  /\ UNCHANGED <<transcriptCounterRef, transcriptsRef, retryCountRef, scribe,
                 attempts, beforeLen, waitStartedAt, wakeAt, backend>>
  /\ UNCHANGED <<sharedVars, wsVars, pageVars, timerVars, frameVars, pcmVars,
                 syncVars, eventVars>>

\* A sleep of the wait loop ends (lines 480-492): the loop sleeps again, or
\* stopRecording disconnects and returns transcriptsRef.current; its locals
\* go out of scope.
R_PollWake ==
  /\ stopPc = "polling"
  /\ now >= wakeAt
  /\ IF KeepWaiting
     THEN /\ wakeAt' = now + PollMs
          /\ UNCHANGED <<scribe, stopResult, stopPc, beforeLen, waitStartedAt>>
     ELSE /\ scribe' = "disconnected"
          /\ stopResult' = transcriptsRef
          /\ stopPc' = "returned"
          /\ beforeLen' = 0
          /\ waitStartedAt' = 0
          /\ wakeAt' = 0
  /\ UNCHANGED <<transcriptCounterRef, transcriptsRef, retryCountRef,
                 connectionTimeoutRef, attempts, backend>>
  /\ UNCHANGED <<sharedVars, wsVars, pageVars, timerVars, frameVars, pcmVars,
                 syncVars, eventVars>>

\* The unmount cleanup of the effect (lines 291-298).
R_Unmount ==
  /\ ~unmounted
  /\ unmounted' = TRUE
  /\ connectionTimeoutRef' = FALSE
  /\ UNCHANGED <<transcriptCounterRef, transcriptsRef, retryCountRef, scribe,
                 attempts, stopPc, beforeLen, waitStartedAt, wakeAt,
                 stopResult, backend>>
  /\ UNCHANGED <<sharedVars, wsOnly, pageVars, timerVars, frameVars, pcmVars,
                 syncVars, eventVars>>

\* Date.now() advances.  A sleep that is due ends before the clock moves on.
\* Outside the wait of stopRecording the clock runs up to MaxTime sleeps.
\* During the wait it advances sleep by sleep for the first MaxEarly sleeps;
\* the remaining sleeps of the grace period, during which nothing arrives and
\* every test of the loop has the same outcome, pass in one step.
R_Tick ==
  /\ ~(stopPc = "polling" /\ now >= wakeAt)
  /\ IF stopPc = "polling"
     THEN now' = IF now - waitStartedAt < MaxEarly * PollMs
                 THEN now + PollMs
                 ELSE waitStartedAt + GraceMs
     ELSE /\ now < MaxTime * PollMs
          /\ now' = now + PollMs
  /\ UNCHANGED <<isConnecting, transcripts, speakersDetected, error,
                 startTimeRef, pc>>
  /\ UNCHANGED <<wsVars, retryVars, pageVars, timerVars, frameVars, pcmVars,
                 syncVars, eventVars>>

\* The connection side of the SDK hook: calls, attempts, retries.
NextRetry ==
  \/ R_StartRecording
  \/ \E k \in CallIds : R_MicRefused(k)
  \/ \E k \in CallIds : R_MicGranted(k)
  \/ \E k \in CallIds : R_TokenError(k)
  \/ \E k \in CallIds : R_TokenGranted(k)
  \/ \E k \in CallIds : R_ConnectResolves(k)
  \/ \E k \in CallIds, kind \in {"network", "other"} : R_ConnectRejects(k, kind)
  \/ \E k \in CallIds : R_ConnectTimeout(k)
  \/ \E k \in CallIds : R_BackoffTick(k)
  \/ \E k \in CallIds : R_BackoffElapsed(k)
  \/ R_LateConnect
  \/ R_SessionStarted
  \/ R_ScribeCloses
  \/ R_StopCommitThrows
  \/ R_Unmount

SpecRetry == Init /\ [][NextRetry]_vars

\* The session side of the SDK hook: calls whose first attempt connects, the
\* events of the session, stopRecording and the clock.
NextSession ==
  \/ R_StartRecording
  \/ \E k \in CallIds : R_MicRefused(k)
  \/ \E k \in CallIds : R_MicGranted(k)
  \/ \E k \in CallIds : R_TokenGranted(k)
  \/ \E k \in CallIds : R_ConnectResolves(k)
  \/ R_SessionStarted
  \/ \E text \in SdkTexts : R_Committed(text)
  \/ R_Speech
  \/ R_FlushCommitted
  \/ \E kind \in {"websocket", "microphone", "other", "unknown"} :
       R_ScribeError(kind)
  \/ R_ScribeCloses
  \/ R_StopRecording
  \/ R_StopCommitThrows
  \/ R_PollWake
  \/ R_Unmount
  \/ R_Tick

SpecSession == Init /\ [][NextSession]_vars

\* The session side without the SDK's error reports, which only set the error
\* text, and with the scheduling of the event loop: a timer that is due fires,
\* and the clock does not stand still.
NextStop ==
  \/ R_StartRecording
  \/ \E k \in CallIds : R_MicRefused(k)
  \/ \E k \in CallIds : R_MicGranted(k)
  \/ \E k \in CallIds : R_TokenGranted(k)
  \/ \E k \in CallIds : R_ConnectResolves(k)
  \/ R_SessionStarted
  \/ \E text \in SdkTexts : R_Committed(text)
  \/ R_Speech
  \/ R_FlushCommitted
  \/ R_ScribeCloses
  \/ R_StopRecording
  \/ R_StopCommitThrows
  \/ R_PollWake
  \/ R_Unmount
  \/ R_Tick

SpecStop ==
  Init /\ [][NextStop]_vars /\ WF_vars(R_PollWake) /\ WF_vars(R_Tick)

\* =====================================================================
\* The NewMeeting page, src/src/pages/NewMeeting.tsx: the title field and
\* the Start button over the WebSocket hook.
\* =====================================================================

\* Titles the user may type: empty, whitespace only, and a real title.
Titles == {"", " ", "Standup"}

TitleRequired == "Please enter a meeting title"
MicRequesting == "Requesting microphone access..."
RecordingStarted == "Recording started"

\* A test of the title that does not trim it.
TitleMissingUntrimmed == title = ""

\* !title.trim() (line 93).
TitleMissing == Trim(title) = ""

\* The title input, rendered while neither connected nor connecting
\* (lines 186-199): onChange stores what was typed.
SetTitle(t) ==
  /\ ~unmounted
  /\ ~isConnected
  /\ ~isConnecting
  /\ t # title
  /\ title' = t
  /\ UNCHANGED <<toast, pagePc>>
  /\ UNCHANGED <<sharedVars, wsVars, retryVars, timerVars, frameVars, pcmVars,
                 syncVars, eventVars>>

\* The startRecording call handleStart is waiting for: the last one made.
AwaitedCall ==
  CHOOSE k \in CallIds :
    /\ pc[k] # "notCalled"
    /\ \A j \in CallIds : pc[j] # "notCalled" => j <= k

\* A click on Start, rendered while neither connecting nor connected
\* (lines 326-350): handleStart up to its await (lines 92-102).
HandleStart ==
  /\ ~unmounted
  /\ ~isConnected
  /\ ~isConnecting
  /\ pagePc = "idle"
  /\ IF TitleMissing
       THEN /\ toast' = TitleRequired
            /\ UNCHANGED <<title, pagePc>>
            /\ UNCHANGED <<sharedVars, wsVars, retryVars, timerVars,
                           frameVars, pcmVars, syncVars, eventVars>>
       ELSE /\ toast' = MicRequesting
            /\ pagePc' = "awaitStart"
            /\ UNCHANGED <<title, timerVars, frameVars, pcmVars, syncVars,
                           eventVars>>
            /\ BeginStartRecording

\* handleStart after its await (lines 102-107): startRecording has returned.
HandleStartResumes ==
  /\ pagePc = "awaitStart"
  /\ pc[AwaitedCall] \in {"retTrue", "retFalse"}
  /\ toast' = IF pc[AwaitedCall] = "retTrue" THEN RecordingStarted ELSE toast
  /\ pagePc' = "idle"
  /\ UNCHANGED title
  /\ UNCHANGED <<sharedVars, wsVars, retryVars, timerVars, frameVars, pcmVars,
                 syncVars, eventVars>>

NextPage ==
  \/ \E t \in Titles : SetTitle(t)
  \/ HandleStart
  \/ HandleStartResumes
  \/ \E k \in CallIds : MicGranted(k)
  \/ \E k \in CallIds : MicRefused(k)
  \/ \E k \in CallIds : TokenError(k)
  \/ \E k \in CallIds : TokenGranted(k)
  \/ \E k \in CallIds : WsOpen(k)
  \/ \E k \in CallIds : WsClose(k)
  \/ \E k \in CallIds : WsFail(k)

SpecPage == Init /\ [][NextPage]_vars

\* =====================================================================
\* The sample conversion of onaudioprocess,
\* src/src/hooks/useAudioRecording.ts lines 99-105.
\* =====================================================================

Samples == (0 - MaxSample)..MaxSample

Min(a, b) == IF a < b THEN a ELSE b

\* A conversion that scales the sample as it comes.
Unclamped(x) == x

\* Math.max(-1, Math.min(1, x)) (line 103), on numerators over SampleDen.
Clamp(x) == Max(0 - SampleDen, Min(SampleDen, x))

\* s < 0 ? s * 0x8000 : s * 0x7fff (line 104), as a numerator over SampleDen.
Scale(s) == IF s < 0 THEN s * NegScale ELSE s * PosScale

\* The integer part of num / SampleDen, rounding toward zero.
Truncate(num) ==
  IF num >= 0 THEN num \div SampleDen ELSE 0 - ((0 - num) \div SampleDen)

\* The store into an Int16Array element: the number is truncated toward zero
\* and wrapped modulo 2^16 into the signed 16-bit range.
ToInt16(num) ==
  LET half == 2 ^ (Int16Bits - 1)
  IN ((Truncate(num) + half) % (2 * half)) - half

\* The loop body of lines 102-105 for one input sample.
ConvertSample(x) ==
  /\ x # sample
  /\ sample' = x
  /\ pcm' = ToInt16(Scale(Clamp(x)))
  /\ UNCHANGED <<sharedVars, wsVars, retryVars, pageVars, timerVars,
                 frameVars, syncVars, eventVars>>

NextPcm == \E x \in Samples : ConvertSample(x)

SpecPcm == Init /\ [][NextPcm]_vars

\* A test of the text that does not trim it.
NonEmpty(text) == text # ""

\* `const text = data.text?.trim(); if (text)` (lines 337-338).
NonBlank(text) == Trim(text) # ""

\* onCommittedTranscript (lines 335-339) for any committed event, the ones
\* it ignores included.
R_OnCommitted(text) ==
  /\ Connected
  /\ Len(received) < MaxEvents
  /\ received' = Append(received, text)
  /\ IF NonBlank(text)
     THEN appendTranscript(Trim(text))
     ELSE UNCHANGED <<transcriptCounterRef, transcriptsRef, transcripts,
                      speakersDetected>>
  /\ UNCHANGED <<isConnecting, error, startTimeRef, pc, now, unmounted,
                 retryCountRef, connectionTimeoutRef, scribe, attempts,
                 stopPc, beforeLen, waitStartedAt, wakeAt, stopResult,
                 backend>>
  /\ UNCHANGED <<wsOnly, pageVars, timerVars, frameVars, pcmVars, syncVars>>

\* The SDK hook receiving committed events of every kind.
NextEvents ==
  \/ R_StartRecording
  \/ \E k \in CallIds : R_MicGranted(k)
  \/ \E k \in CallIds : R_TokenGranted(k)
  \/ \E k \in CallIds : R_ConnectResolves(k)
  \/ R_SessionStarted
  \/ \E text \in SdkTexts : R_OnCommitted(text)
  \/ R_ScribeCloses

SpecEvents == Init /\ [][NextEvents]_vars

\* =====================================================================
\* The SDK hook that syncs the transcript list from the SDK's own list,
\* src/unnamed/part_004 lines 959-1104.
\* =====================================================================

\* Ids the SDK gives its committed transcripts.
SdkIds == 1..MaxSdk

\* The refs and state of the retry hook other than the SDK's session.
retryRest == <<transcriptCounterRef, transcriptsRef, retryCountRef,
               connectionTimeoutRef, attempts, stopPc, beforeLen,
               waitStartedAt, wakeAt, stopResult, backend>>

\* startRecording up to its first await (lines 1031-1042): the session state
\* is reset and the SDK's list is cleared.
S_StartRecording ==
  /\ NextCall # 0
  /\ error' = NoError
  /\ isConnecting' = TRUE
  /\ startTimeRef' = now
  /\ processedIdsRef' = {}
  /\ transcripts' = <<>>
  /\ speakersDetected' = 0
  /\ sdkCommitted' = <<>>
  /\ effectDue' = (effectDue \/ sdkCommitted # <<>>)
  /\ pc' = [pc EXCEPT ![NextCall] = "awaitToken"]
  /\ UNCHANGED <<now, scribe, retryRest>>
  /\ UNCHANGED <<wsVars, pageVars, timerVars, frameVars, pcmVars, eventVars>>

\* The token request fails (lines 1044-1049).
S_TokenError(k) ==
  /\ pc[k] = "awaitToken"
  /\ error' = TokenFailed
  /\ isConnecting' = FALSE
  /\ pc' = [pc EXCEPT ![k] = "retFalse"]
  /\ UNCHANGED <<transcripts, speakersDetected, startTimeRef, now, scribe,
                 retryRest>>
  /\ UNCHANGED <<wsVars, pageVars, timerVars, frameVars, pcmVars, syncVars,
                 eventVars>>

\* The token arrives and scribe.connect is called (lines 1051-1061).
S_TokenGranted(k) ==
  /\ pc[k] = "awaitToken"
  /\ scribe' = IF scribe = "disconnected" THEN "connecting" ELSE scribe
  /\ pc' = [pc EXCEPT ![k] = "awaitConnect"]
  /\ UNCHANGED <<isConnecting, transcripts, speakersDetected, error,
                 startTimeRef, now, retryRest>>
  /\ UNCHANGED <<wsVars, pageVars, timerVars, frameVars, pcmVars, syncVars,
                 eventVars>>

\* scribe.connect resolves (lines 1061-1064).
S_ConnectResolves(k) ==
  /\ pc[k] = "awaitConnect"
  /\ scribe' = "opened"
  /\ isConnecting' = FALSE
  /\ pc' = [pc EXCEPT ![k] = "retTrue"]
  /\ UNCHANGED <<transcripts, speakersDetected, error, startTimeRef, now,
                 retryRest>>
  /\ UNCHANGED <<wsVars, pageVars, timerVars, frameVars, pcmVars, syncVars,
                 eventVars>>

\* scribe.connect rejects (lines 1065-1071).
S_ConnectRejects(k) ==
  /\ pc[k] = "awaitConnect"
  /\ scribe' = IF scribe = "connecting" THEN "disconnected" ELSE scribe
  /\ error' = SdkFailure
  /\ isConnecting' = FALSE
  /\ pc' = [pc EXCEPT ![k] = "retFalse"]
  /\ UNCHANGED <<transcripts, speakersDetected, startTimeRef, now, retryRest>>
  /\ UNCHANGED <<wsVars, pageVars, timerVars, frameVars, pcmVars, syncVars,
                 eventVars>>

\* The SDK commits a transcript: its list is replaced by one with a further
\* entry, which makes the sync effect due.
S_SdkCommits(id) ==
  /\ scribe = "opened"
  /\ Len(sdkCommitted) < MaxSdk
  /\ sdkCommitted' = Append(sdkCommitted, id)
  /\ effectDue' = TRUE
  /\ UNCHANGED processedIdsRef
  /\ UNCHANGED <<sharedVars, wsVars, retryVars, pageVars, timerVars,
                 frameVars, pcmVars, eventVars>>

\* A test that takes every entry of the SDK's list for a new one.
NeverProcessed(id, seen) == FALSE

\* processedIdsRef.current.has(t.id) (line 1008).
Processed(id, seen) == id \in seen

\* The forEach of the sync effect (lines 1007-1020) from entry i on: seen is
\* processedIdsRef so far, acc the new segments so far.  The entry at
\* position i has the index i - 1 of the code.
RECURSIVE SyncFrom(_, _, _)
SyncFrom(i, seen, acc) ==
  IF i > Len(sdkCommitted) THEN [seen |-> seen, new |-> acc]
  ELSE IF Processed(sdkCommitted[i], seen) THEN SyncFrom(i + 1, seen, acc)
  ELSE SyncFrom(i + 1, seen \cup {sdkCommitted[i]},
                Append(acc, [id |-> sdkCommitted[i],
                             text |-> "hello",
                             timestamp |-> now - startTimeRef,
                             speaker |-> ((i - 1) % 4) + 1]))

\* The sync effect (lines 1001-1027), run after a change of the SDK's list.
S_SyncEffect ==
  /\ effectDue
  /\ effectDue' = FALSE
  /\ LET r == SyncFrom(1, processedIdsRef, <<>>)
         speakers == {r.new[i].speaker : i \in DOMAIN r.new}
     IN IF Len(sdkCommitted) > 0
        THEN /\ processedIdsRef' = r.seen
             /\ IF Len(r.new) > 0
                THEN /\ transcripts' = transcripts \o r.new
                     /\ speakersDetected' =
                          Max(speakersDetected, Cardinality(speakers))
                ELSE UNCHANGED <<transcripts, speakersDetected>>
        ELSE UNCHANGED <<processedIdsRef, transcripts, speakersDetected>>
  /\ UNCHANGED sdkCommitted
  /\ UNCHANGED <<isConnecting, error, startTimeRef, pc, now>>
  /\ UNCHANGED <<wsVars, retryVars, pageVars, timerVars, frameVars, pcmVars,
                 eventVars>>

\* stopRecording (lines 1074-1080): scribe.disconnect().
S_StopRecording ==
  /\ scribe # "disconnected"
  /\ scribe' = "disconnected"
  /\ UNCHANGED retryRest
  /\ UNCHANGED <<sharedVars, wsVars, pageVars, timerVars, frameVars, pcmVars,
                 syncVars, eventVars>>

NextSync ==
  \/ S_StartRecording
  \/ \E k \in CallIds : S_TokenError(k)
  \/ \E k \in CallIds : S_TokenGranted(k)
  \/ \E k \in CallIds : S_ConnectResolves(k)
  \/ \E k \in CallIds : S_ConnectRejects(k)
  \/ \E id \in SdkIds : S_SdkCommits(id)
  \/ S_SyncEffect
  \/ S_StopRecording

SpecSync == Init /\ [][NextSync]_vars

\* =====================================================================
\* Properties
\* =====================================================================

SegIndexes == 1..(Len(transcripts) - 1)

\* C1: retry bound of startRecording.  A call makes at most maxRetries + 1
\* connection attempts, and a call whose attempts fail ends in the failed
\* outcome only after it has made all maxRetries + 1 of them (so that three
\* failures followed by a success connect).
C1_RetryBound ==
  [][ /\ attempts' <= maxRetries + 1
      /\ \A k \in CallIds :
           (pc[k] # "retFalse" /\ pc'[k] = "retFalse" /\ attempts >= 1)
             => attempts = maxRetries + 1 ]_vars

\* C2: stopRecording called while startRecording is in flight cancels it.
\* Once no call is in flight any more, no microphone stream is live and no
\* connection is open, until startRecording is called again.
C2_StopCancelsStart ==
  (lastStop = "inFlight" /\ \A k \in CallIds : ~InFlight(k))
    => \A k \in CallIds : stream[k] # "live" /\ sock[k] # "OPEN"

\* C3: after stopRecording on a connected session, or after the unmount
\* cleanup, every microphone stream is stopped and no audio frame is sent.
C3_ReleasedAfterStop ==
  Released => /\ \A k \in CallIds : stream[k] # "live"
              /\ ~lateFrame

\* C4: commit-flush on stop.  While the segment flushed by the commit
\* instruction has not arrived, stopRecording keeps its connection for the
\* whole grace period: it returns without that segment only once GraceMs
\* have passed since the instruction.
C4_FlushWithinGrace ==
  [][ (stopPc = "polling" /\ stopPc' = "returned" /\ backend = "flushing")
        => now - waitStartedAt >= GraceMs ]_vars

\* C5: the transcript list is in arrival order.  Along the list the sequence
\* numbers are the list positions, hence strictly increasing, and the
\* timestamps are non-negative and non-decreasing.
C5_TranscriptOrder ==
  /\ \A i \in DOMAIN transcripts :
       /\ transcripts[i].id[1] = i
       /\ transcripts[i].timestamp >= 0
  /\ \A i \in SegIndexes :
       /\ transcripts[i].id[1] < transcripts[i + 1].id[1]
       /\ transcripts[i].timestamp <= transcripts[i + 1].timestamp

\* A second session holds two segments committed at different clock readings.
C5_Witness ==
  /\ pc[2] = "retTrue"
  /\ Len(transcripts) = 2
  /\ transcripts[1].timestamp < transcripts[2].timestamp

\* C6: speaker labels are stable.  Two segments of one session carrying the
\* same backend speaker identifier carry the same label, and segments with
\* different identifiers carry different labels.
C6_LabelStability ==
  \A i, j \in DOMAIN transcripts :
    (transcripts[i].sid = transcripts[j].sid)
      <=> (transcripts[i].speaker = transcripts[j].speaker)

\* C7: exclusive ownership.  At most one microphone stream is live and at
\* most one connection is open or opening.
C7_ExclusiveOwnership ==
  /\ Cardinality({k \in CallIds : stream[k] = "live"}) <= 1
  /\ Cardinality({k \in CallIds : sock[k] \in {"CONNECTING", "OPEN"}}) <= 1

\* C8: teardown from any state.  After the unmount cleanup, once the
\* startRecording calls that were in flight have run to their end, no
\* connection is open or opening and no microphone stream is live.
C8_TeardownReleases ==
  (unmounted /\ \A k \in CallIds : ~InFlight(k))
    => \A k \in CallIds :
         /\ sock[k] \notin {"CONNECTING", "OPEN"}
         /\ stream[k] # "live"

\* C9: a backend error event received while connected ends the session.  The
\* message of the event is the hook's error, the connection is no longer
\* open, every microphone stream is stopped and isConnected is false.
C9_ErrorEventFails ==
  [][ \A k \in CallIds, e \in BackendErrors :
        (isConnected /\ ErrorMessage(k, e))
          => /\ e # "" => error' = e
             /\ sock'[k] # "OPEN"
             /\ \A j \in CallIds : stream'[j] # "live"
             /\ ~isConnected' ]_vars

\* C10: the connecting phase ends.  isConnecting is true only while a
\* startRecording call is in flight or a connection is opening: when the
\* attempt is over, however it ended, the flag is false.
C10_ConnectingEnds ==
  (\A k \in CallIds : ~InFlight(k) /\ sock[k] \notin {"CONNECTING", "ABORTING"})
    => ~isConnecting

TokenFailureStep(k) ==
  pc[k] = "awaitToken" /\ pc'[k] \notin {"awaitToken", "awaitConnect"}

ConnectFailureStep(k) ==
  pc[k] = "awaitConnect" /\ pc'[k] \notin {"awaitConnect", "retTrue"}

\* What a failed attempt leads to: while the retry budget is not used up, one
\* retry is consumed and the call backs off, still connecting and with no
\* error shown; with the budget used up the call ends in the failed outcome.
RetriedOrTerminal(k) ==
  IF retryCountRef < maxRetries
  THEN /\ pc'[k] = "backoff"
       /\ retryCountRef' = retryCountRef + 1
       /\ isConnecting'
       /\ error' = error
  ELSE /\ pc'[k] = "retFalse"
       /\ retryCountRef' = retryCountRef
       /\ ~isConnecting'
       /\ error' # NoError

RefusalStep(k) ==
  pc[k] = "awaitMic" /\ pc'[k] # "awaitMic" /\ stream'[k] # "live"

\* C13: a microphone permission failure is fatal and not retried.  The call
\* returns false with the permission error set and isConnecting false; it
\* has acquired no stream and created no connection, and a call that has
\* returned false does nothing further.
C13_PermissionFatal ==
  [][ \A k \in CallIds :
        /\ RefusalStep(k)
             => /\ pc'[k] = "retFalse"
                /\ error' = MicDenied
                /\ ~isConnecting'
                /\ stream'[k] = "none"
                /\ sock'[k] = "none"
        /\ pc[k] = "retFalse"
             => /\ pc'[k] = "retFalse"
                /\ sock'[k] = sock[k] ]_vars

\* A call has returned false on a refused permission.
C13_Witness ==
  /\ pc[1] = "retFalse"
  /\ stream[1] = "none"
  /\ error = MicDenied
  /\ ~isConnecting

\* A step of a handler that runs cleanupAudio.
CleanupStep ==
  \/ StopRecording
  \/ Unmount
  \/ \E k \in CallIds : WsClose(k) \/ WsFail(k)

\* C14: release is idempotent.  A run of cleanupAudio leaves both refs
\* empty, and a run that finds them empty, as every run after the first
\* does, changes neither a stream nor an audio graph.
C14_CleanupIdempotent ==
  [][ CleanupStep
        => /\ processorRef' = 0 /\ streamRef' = 0
           /\ (processorRef = 0 /\ streamRef = 0)
                => UNCHANGED <<proc, stream>> ]_vars

\* stopRecording has released a connected session and the close event of
\* its socket has run the cleanup once more.
C14_Witness ==
  /\ lastStop = "connected"
  /\ sock[1] = "CLOSED"
  /\ stream[1] = "stopped"
  /\ proc[1] = "off"

\* C15: labels rotate.  The n-th segment of the list is labelled
\* Speaker ((n - 1) mod 4) + 1, so no label beyond Speaker 4 is assigned.
C15_LabelRotation ==
  \A n \in DOMAIN transcripts :
    /\ transcripts[n].speaker = ((n - 1) % 4) + 1
    /\ transcripts[n].speaker <= 4

\* No startRecording call is in flight.
NoCallInFlight == \A k \in CallIds : ~InFlight(k)

\* C16: a session is never resumed on its own.  While no startRecording call
\* is in flight, no step other than a new startRecording call starts a token
\* request or a connection attempt, and a connection that has ended or is
\* ending never opens again.
C16_NoAutoResume ==
  [][ /\ (NoCallInFlight /\ ~StartRecording)
           => /\ NoCallInFlight'
              /\ \A k \in CallIds :
                   sock'[k] = "CONNECTING" => sock[k] = "CONNECTING"
      /\ \A k \in CallIds :
           sock[k] \in {"CLOSING", "ABORTING", "CLOSED"}
             => sock'[k] \notin {"CONNECTING", "OPEN"} ]_vars

\* A session that was connected has been ended by a transport error.
C16_Witness ==
  /\ sock[1] = "CLOSED"
  /\ proc[1] = "off"
  /\ error = ConnError
  /\ pc[1] = "retTrue"
  /\ pc[2] = "notCalled"

\* C17: resources are released on the exits other than stopRecording.  A
\* call that has returned false holds no live microphone stream and no
\* connection, and a call whose connection has been closed holds no live
\* microphone stream.
C17_ReleasedOnFailure ==
  \A k \in CallIds :
    /\ pc[k] = "retFalse"
         => stream[k] # "live" /\ sock[k] \notin {"CONNECTING", "OPEN"}
    /\ sock[k] = "CLOSED" => stream[k] # "live"

\* C18: starting a recording without a non-blank meeting title is rejected:
\* a click on Start with an empty or whitespace-only title shows the
\* title-required message and begins no startRecording call, and no call
\* ever begins while the title is blank.
BlankTitles == {"", " "}

C18_TitleRequired ==
  [][ /\ \A k \in CallIds :
         (pc[k] = "notCalled" /\ pc'[k] # "notCalled") => title \notin BlankTitles
      /\ (HandleStart /\ title \in BlankTitles) =>
            /\ toast' = TitleRequired
            /\ UNCHANGED <<sharedVars, wsVars, retryVars>> ]_vars

C18_Witness ==
  /\ title = " "
  /\ toast = TitleRequired
  /\ \A k \in CallIds : pc[k] = "notCalled"
  /\ ~isConnecting

\* C19: backoff between connection attempts.  When the k-th attempt of a
\* call fails and is retried, the delay set before the k-th retry is
\* k * 1000 ms, and the next attempt does not start before that delay has
\* elapsed.
C19_Backoff ==
  [][ \A k \in CallIds :
        /\ (pc[k] \in {"awaitToken", "awaitConnect"} /\ pc'[k] = "backoff")
              => retryAt' = now + attempts * BaseDelayMs
        /\ (pc[k] = "backoff" /\ pc'[k] = "awaitToken")
              => now >= retryAt ]_vars

\* C20: the retry counter is reset per recording attempt.  When a
\* startRecording call begins its first connection attempt the retry counter
\* is 0, whatever earlier calls did, and the counter is 0 again once the
\* session has started.
C20_RetryCounterReset ==
  [][ /\ \A k \in CallIds :
         (pc[k] = "awaitMic" /\ pc'[k] = "awaitToken") => retryCountRef' = 0
      /\ (scribe # "started" /\ scribe' = "started") => retryCountRef' = 0 ]_vars

C22_PartialCleared == ~isConnected => partialText = ""

\* s is a prefix of t.
IsPrefix(s, t) == Len(s) <= Len(t) /\ SubSeq(t, 1, Len(s)) = s

\* A new session starts: a connection opens (ws.onopen, lines 78-85).
SessionOpens == \E k \in CallIds : sock[k] = "CONNECTING" /\ sock'[k] = "OPEN"

\* C23: the transcript is append-only within a session.  In every step other
\* than the start of a new session the old transcript list is a prefix of the
\* new one (no segment removed, reordered or modified) and the speaker set
\* loses no member; list and speaker set are cleared only by a session start.
C23_AppendOnly ==
  [][ ~SessionOpens => /\ IsPrefix(transcripts, transcripts')
                       /\ speakerCountRef \subseteq speakerCountRef' ]_vars

C23_Witness ==
  /\ sock[1] = "CLOSED"
  /\ sock[2] = "OPEN"
  /\ Len(transcripts) = MaxSegs
  /\ Cardinality(speakerCountRef) = MaxSegs

\* C24: audio frames are forwarded only while the connection is open.  Every
\* frame sent was sent on a socket whose readyState was OPEN: none before the
\* connection has opened, none once it is closing or closed.
C24_FramesOnlyWhileOpen == sentIn \subseteq {"OPEN"}

\* Frames have been sent, and an audio graph is still firing on a socket that
\* is no longer open.
C24_Witness ==
  /\ sentIn = {"OPEN"}
  /\ \E k \in CallIds : proc[k] = "active" /\ sock[k] \in {"CLOSING", "CLOSED"}

\* C25: sample conversion never overflows.  The value stored for a sample is
\* the clamped sample scaled by 32768 when negative and by 32767 otherwise,
\* truncated, with no wrap-around: it lies in [-32768, 32767], has the sign
\* of the sample, and is -32768 for every sample at or below -1, 0 for 0 and
\* 32767 for every sample at or above 1.
C25_NoOverflow ==
  /\ pcm >= 0 - NegScale
  /\ pcm <= PosScale
  /\ pcm = Truncate(Scale(Max(0 - SampleDen, Min(SampleDen, sample))))
  /\ sample <= 0 - SampleDen => pcm = 0 - NegScale
  /\ sample = 0 => pcm = 0
  /\ sample >= SampleDen => pcm = PosScale
  /\ sample < 0 => pcm <= 0
  /\ sample > 0 => pcm >= 0

\* A sample above 1 has been converted.
C25_Witness ==
  /\ sample > SampleDen
  /\ pcm = PosScale

\* C26: the transcript is deduplicated.  No two segments of the transcript
\* list have the same id: a committed transcript the SDK reports again (it
\* stays in the SDK's list, or is entered there twice) is appended once.
C26_Deduplicated ==
  \A i, j \in DOMAIN transcripts :
    i # j => transcripts[i].id # transcripts[j].id

\* The SDK's list holds an id twice and has been synced more than once.
C26_Witness ==
  /\ ~effectDue
  /\ Len(sdkCommitted) = MaxSdk
  /\ sdkCommitted[1] = sdkCommitted[MaxSdk]
  /\ Len(transcripts) = MaxSdk - 1

\* The speaker labels among the segments of the transcript list.
SpeakerLabels == {transcripts[i].speaker : i \in DOMAIN transcripts}

\* C27: the derived speaker count is exact.  In every reachable state
\* speakersDetected is the number of distinct speaker labels among the
\* segments of the transcript list.
C27_SpeakerCountExact == speakersDetected = Cardinality(SpeakerLabels)

\* k is the startRecording call made last.
IsLastCall(k) ==
  /\ pc[k] # "notCalled"
  /\ \A j \in CallIds : j > k => pc[j] = "notCalled"

\* The SDK's connection opens in this step although no call is waiting for a
\* connect: the success of an attempt that has timed out.
LateSuccess ==
  /\ ~Connected
  /\ Connected'
  /\ \A k \in CallIds : pc[k] # "awaitConnect"

\* C28: a timed-out connection attempt is dead.  The late success of an
\* attempt the timeout has rejected opens no connection while the call is
\* retrying (backing off or starting its next attempt), and none after
\* startRecording has returned false.
C28_TimedOutAttemptDead ==
  [][ LateSuccess =>
        \A k \in CallIds :
          IsLastCall(k) => pc[k] \notin {"backoff", "awaitToken", "retFalse"}
    ]_vars

\* C29: startRecording reports success only for an established session.  In
\* the step in which a call returns true its connection is open and the hook
\* is connected.
C29_SuccessMeansOpen ==
  [][ \A k \in CallIds :
        (pc[k] # "retTrue" /\ pc'[k] = "retTrue")
          => (sock'[k] = "OPEN" /\ isConnected') ]_vars

\* C30: a committed event whose text is empty or only whitespace is ignored.
\* The step that receives it appends no segment, does not advance the
\* sequence counter (which also fixes the speaker rotation) and leaves the
\* speaker count unchanged.
C30_BlankIgnored ==
  [][ (Len(received') > Len(received)
         /\ received'[Len(received')] \in {"", " "})
        => UNCHANGED <<transcripts, transcriptsRef, transcriptCounterRef,
                       speakersDetected>> ]_vars

\* A whitespace-only event has been received between two events with text.
C30_Witness ==
  /\ Len(received) = MaxEvents
  /\ received[MaxEvents - 1] = " "
  /\ Len(transcripts) = MaxEvents - 1
  /\ transcriptCounterRef = MaxEvents - 1

====
